---------------------------- MODULE Spec2Model ----------------------------
(***************************************************************************)
(* A model of fava's src/fava/core/file.py: reading and writing Beancount  *)
(* source files (whole files, entry slices, metadata lines, inserted       *)
(* entries).                                                               *)
(*                                                                         *)
(* Text is a sequence of one-character strings.  A file system is a        *)
(* function from the names of the files that exist to their contents.     *)
(* A call of a function of file.py is an operator that returns an outcome  *)
(* record: the exception it raised ("none" on a normal return), the        *)
(* message of the exception, the returned value (a tuple) and the file     *)
(* system it leaves behind.                                                *)
(*                                                                         *)
(* The alphabet has letters, the space and the newline; there is no        *)
(* carriage return, so the newline translation of text-mode files changes  *)
(* nothing, and UTF-8 encoding maps a character to itself.                 *)
(***************************************************************************)
EXTENDS Integers, Sequences, FiniteSets, TLC

VARIABLES
    files,      \* the file system: file name -> content
    entry,      \* the entry the slice operations are about: its meta filename, lineno
    held,       \* what the caller holds from get_entry_slice: <<>> or <<text, sha256sum>>
    call,       \* the last completed call: operation, arguments, file system before, outcome
    ext,        \* the number of external rewrites of the file so far
    lock,       \* FileModule.lock: the thread holding it, or Free
    pc,         \* per thread: where it is in its call
    frame,      \* per thread: the arguments, local variables and outcome of its call
    hooks,      \* the calls of ledger.extensions.run_hook, in order
    loads,      \* the calls of ledger.load_file, in order: the calling threads
    options,    \* ledger.fava_options["insert-entry"]: the list of InsertEntryOption
    orig        \* per option: the line of its file it designated when the ledger was loaded

vars == <<files, entry, held, call, ext, lock, pc, frame, hooks, loads, options, orig>>

-----------------------------------------------------------------------------
(* Bounds *)

\* Lines of a file in the specifications without external rewrites.
MaxLines == 3
\* Lines of a replacement text handed to save_entry_slice.
MaxTextLines == 2
\* Lines of a file, before and after, where the file is rewritten externally.
MaxExtLines == 2
\* Lines of a replacement text where the file is rewritten externally.
MaxExtTextLines == 1
\* Lines of the file the threads write to.
MaxConcLines == 1
\* Insert options of the ledger.
MaxOptions == 2
\* Entries inserted one after the other.
MaxInserts == 2
\* Options handed to find_insert_position.
MaxRouteOptions == 2
\* Lines of the file a metadata line is inserted into.
MaxMetaLines == 2

-----------------------------------------------------------------------------
(* Text *)

NL == "\n"

\* str.strip(), str.lstrip() with no argument strip whitespace; \S in re is its
\* complement.  The alphabet of the model has two whitespace characters.
IsSpace(c) == c \in {" ", NL}

\* readlines() of a text-mode file: the lines with their terminators; only the
\* last line can lack one.
RECURSIVE readlines(_)
readlines(s) ==
    IF s = <<>> THEN <<>>
    ELSE LET nls == {i \in 1..Len(s) : s[i] = NL}
         IN  IF nls = {} THEN <<s>>
             ELSE LET i == CHOOSE k \in nls : \A j \in nls : k <= j
                  IN  <<SubSeq(s, 1, i)>> \o readlines(SubSeq(s, i + 1, Len(s)))

\* "".join(lines), and what file.writelines(lines) / file.write("".join(lines)) writes.
RECURSIVE join(_)
join(lines) ==
    IF lines = <<>> THEN <<>> ELSE Head(lines) \o join(Tail(lines))

\* str.rstrip("\n")
RECURSIVE rstrip_nl(_)
rstrip_nl(s) ==
    IF s # <<>> /\ s[Len(s)] = NL THEN rstrip_nl(SubSeq(s, 1, Len(s) - 1)) ELSE s

\* str.lstrip()
RECURSIVE lstrip(_)
lstrip(s) ==
    IF s # <<>> /\ IsSpace(Head(s)) THEN lstrip(Tail(s)) ELSE s

\* str.rstrip()
RECURSIVE rstrip(_)
rstrip(s) ==
    IF s # <<>> /\ IsSpace(s[Len(s)]) THEN rstrip(SubSeq(s, 1, Len(s) - 1)) ELSE s

\* A strip that strips nothing.
unstripped(s) == s

\* str.strip()
strip(s) ==
    rstrip(lstrip(s))

\* str.count("\n")
count_nl(s) == Cardinality({i \in 1..Len(s) : s[i] = NL})

\* list.insert(index, x) for index >= 0: past the end it appends.
list_insert(list, index, x) ==
    LET k == IF index < Len(list) THEN index ELSE Len(list)
    IN  SubSeq(list, 1, k) \o <<x>> \o SubSeq(list, k + 1, Len(list))

\* sha256 of the UTF-8 encoding of a string, as a hex digest: an injective tag
\* of the text (collisions are not modelled).
sha256_str(val) == <<"sha256", val>>

-----------------------------------------------------------------------------
(* Outcomes *)

Return(ret, fs) == [exc |-> "none", msg |-> "", ret |-> ret, fs |-> fs]

Raise(exc, msg, fs) == [exc |-> exc, msg |-> msg, ret |-> <<>>, fs |-> fs]

\* The module's one domain error.
FavaAPIException == "FavaAPIException"

CONFLICT_MSG == "The file changed externally."

-----------------------------------------------------------------------------
(* Entry slices *)

\* The while loop of find_entry_lines: lineno is the 0-based index of the last
\* line taken.
RECURSIVE entry_lines_loop(_, _, _)
entry_lines_loop(lines, lineno, entry_lines) ==
    LET next == lineno + 1
    IN  IF next >= Len(lines) THEN entry_lines
        ELSE LET line == lines[next + 1]
             IN  IF strip(line) = <<>> \/ ~IsSpace(line[1]) THEN entry_lines
                 ELSE entry_lines_loop(lines, next, Append(entry_lines, line))

\* find_entry_lines(lines, lineno), lineno 0-based and >= 0: the outcome's ret
\* is the list of lines; lines[lineno] past the end raises IndexError.
find_entry_lines(lines, lineno) ==
    IF lineno >= Len(lines) THEN Raise("IndexError", "list index out of range", <<>>)
    ELSE Return(entry_lines_loop(lines, lineno, <<lines[lineno + 1]>>), <<>>)

\* A get_entry_slice that takes the first line of the entry for its slice.
get_entry_slice_first_line(fs, e) ==
    IF e.filename \notin DOMAIN fs THEN Raise("FileNotFoundError", "", fs)
    ELSE LET lines == readlines(fs[e.filename])
         IN  IF e.lineno - 1 >= Len(lines)
             THEN Raise("IndexError", "list index out of range", fs)
             ELSE LET entry_source == rstrip_nl(lines[e.lineno])
                  IN  Return(<<entry_source, sha256_str(entry_source)>>, fs)

\* get_entry_slice(entry) on file system fs.
get_entry_slice(fs, e) ==
    IF e.filename \notin DOMAIN fs THEN Raise("FileNotFoundError", "", fs)
    ELSE LET lines == readlines(fs[e.filename])
             found == find_entry_lines(lines, e.lineno - 1)
         IN  IF found.exc # "none" THEN Raise(found.exc, found.msg, fs)
             ELSE LET entry_source == rstrip_nl(join(found.ret))
                  IN  Return(<<entry_source, sha256_str(entry_source)>>, fs)

\* Lines written back without the lines that follow the slice.
spliced_lines_cut(lines, first_entry_line, entry_lines, source_slice) ==
    SubSeq(lines, 1, first_entry_line) \o <<source_slice \o <<NL>>>>

\* The lines save_entry_slice writes back.
spliced_lines(lines, first_entry_line, entry_lines, source_slice) ==
    SubSeq(lines, 1, first_entry_line)
        \o <<source_slice \o <<NL>>>>
        \o SubSeq(lines, first_entry_line + Len(entry_lines) + 1, Len(lines))

\* save_entry_slice up to its write: it reads the file, locates the slice and
\* compares the sha256sum; the outcome's ret holds the lines to write.
save_entry_slice_read(fs, e, source_slice, sha256sum) ==
    IF e.filename \notin DOMAIN fs THEN Raise("FileNotFoundError", "", fs)
    ELSE LET lines == readlines(fs[e.filename])
             first_entry_line == e.lineno - 1
             found == find_entry_lines(lines, first_entry_line)
         IN  IF found.exc # "none" THEN Raise(found.exc, found.msg, fs)
             ELSE LET entry_source == rstrip_nl(join(found.ret))
                  IN  IF sha256_str(entry_source) # sha256sum
                      THEN Raise(FavaAPIException, CONFLICT_MSG, fs)
                      ELSE Return(<<spliced_lines(lines, first_entry_line,
                                                  found.ret, source_slice)>>, fs)

\* open(filename, "w") and file.writelines(lines): the file is created or
\* truncated.
write_lines(fs, filename, lines) ==
    [f \in DOMAIN fs \cup {filename} |-> IF f = filename THEN join(lines) ELSE fs[f]]

\* save_entry_slice(entry, source_slice, sha256sum) on file system fs.
save_entry_slice(fs, e, source_slice, sha256sum) ==
    LET read == save_entry_slice_read(fs, e, source_slice, sha256sum)
    IN  IF read.exc # "none" THEN read
        ELSE Return(<<sha256_str(source_slice)>>,
                    write_lines(fs, e.filename, read.ret[1]))

-----------------------------------------------------------------------------
(* Whole files *)

MAIN == "main.beancount"

\* A file on disk that the ledger does not include.
NOTES == "notes.txt"

\* ledger.options["include"]: the source files of the ledger.
Include == {MAIN}

NOT_SOURCE_MSG == "Trying to read a non-source file"

\* FileModule.get_source(path) on file system fs: ret is <<source, sha256sum>>.
get_source(fs, path) ==
    IF path \notin Include THEN Raise(FavaAPIException, NOT_SOURCE_MSG, fs)
    ELSE IF path \notin DOMAIN fs THEN Raise("FileNotFoundError", "", fs)
    ELSE Return(<<fs[path], sha256_str(fs[path])>>, fs)

\* A set_source that never finds the file changed.
changed_externally_never(original_sha256sum, sha256sum) ==
    FALSE

\* The test of set_source that the file changed since the caller read it.
changed_externally(original_sha256sum, sha256sum) ==
    original_sha256sum # sha256sum

-----------------------------------------------------------------------------
(* Metadata *)

DEFAULT_INDENT == <<" ", " ">>

\* leading_space(line): line[: len(line) - len(line.lstrip())] or DEFAULT_INDENT
leading_space(line) ==
    LET space == SubSeq(line, 1, Len(line) - Len(lstrip(line)))
    IN  IF space = <<>> THEN DEFAULT_INDENT ELSE space

\* f'{indent}{key}: "{value}"\n'
metadata_line(indent, key, value) ==
    indent \o key \o <<":", " ", "\"">> \o value \o <<"\"", NL>>

\* insert_metadata_in_file(filename, lineno, key, value) on file system fs.
insert_metadata_in_file(fs, filename, lineno, key, value) ==
    IF filename \notin DOMAIN fs THEN Raise("FileNotFoundError", "", fs)
    ELSE LET contents == readlines(fs[filename])
             indent == IF lineno < Len(contents)
                       THEN leading_space(contents[lineno + 1])
                       ELSE DEFAULT_INDENT
         IN  Return(<<>>,
                    write_lines(fs, filename,
                                list_insert(contents, lineno,
                                            metadata_line(indent, key, value))))

-----------------------------------------------------------------------------
(* Inserting entries *)

\* str.split("\n"): the pieces between the newlines.
RECURSIVE split_nl(_)
split_nl(s) ==
    LET nls == {i \in 1..Len(s) : s[i] = NL}
    IN  IF nls = {} THEN <<s>>
        ELSE LET i == CHOOSE k \in nls : \A j \in nls : k <= j
             IN  <<SubSeq(s, 1, i - 1)>> \o split_nl(SubSeq(s, i + 1, Len(s)))

\* "\n".join(pieces)
RECURSIVE join_nl(_)
join_nl(pieces) ==
    IF Len(pieces) <= 1 THEN join(pieces)
    ELSE Head(pieces) \o <<NL>> \o join_nl(Tail(pieces))

\* _format_entry(entry, currency_column): e.raw is what the external
\* align(format_entry(entry), currency_column) gives for the entry; every line
\* loses its trailing whitespace.
format_entry_text(e) ==
    LET pieces == split_nl(e.raw)
    IN  join_nl([i \in DOMAIN pieces |-> rstrip(pieces[i])])

\* An ascending stable sort by date.
RECURSIVE sorted_by_date_asc(_)
sorted_by_date_asc(opts) ==
    IF opts = <<>> THEN <<>>
    ELSE LET last == opts[Len(opts)]
             rest == sorted_by_date_asc(SubSeq(opts, 1, Len(opts) - 1))
         IN  SelectSeq(rest, LAMBDA o : o.date <= last.date)
                 \o <<last>>
                 \o SelectSeq(rest, LAMBDA o : o.date > last.date)

\* sorted(insert_options, key=attrgetter("date"))[::-1]: options of one date
\* come out in reverse order.
sorted_then_reversed(opts) ==
    LET asc == sorted_by_date_asc(opts)
    IN  [i \in DOMAIN asc |-> asc[Len(asc) + 1 - i]]

\* sorted(insert_options, key=attrgetter("date"), reverse=True): a stable sort,
\* options of one date keep their order.
RECURSIVE sorted_by_date_desc(_)
sorted_by_date_desc(opts) ==
    IF opts = <<>> THEN <<>>
    ELSE LET last == opts[Len(opts)]
             rest == sorted_by_date_desc(SubSeq(opts, 1, Len(opts) - 1))
         IN  SelectSeq(rest, LAMBDA o : o.date >= last.date)
                 \o <<last>>
                 \o SelectSeq(rest, LAMBDA o : o.date < last.date)

\* Only consider InsertOptions before the entry date.
before_entry(insert_option, e) ==
    ~(insert_option.date >= e.date)

\* insert_option.re.match(account): a pattern is the set of accounts it matches.
re_match(re, account) ==
    account \in re

\* The loops of find_insert_position over the accounts and the sorted options.
\* A position is <<filename, lineno>>, or <<filename>> for (filename, None).
RECURSIVE position_loop(_, _, _, _)
position_loop(accounts, insert_options, e, default_filename) ==
    IF accounts = <<>> THEN <<default_filename>>
    ELSE LET hits == {i \in DOMAIN insert_options :
                          /\ before_entry(insert_options[i], e)
                          /\ re_match(insert_options[i].re, Head(accounts))}
         IN  IF hits # {}
             THEN LET i == CHOOSE k \in hits : \A j \in hits : k <= j
                  IN  <<insert_options[i].filename, insert_options[i].lineno - 1>>
             ELSE position_loop(Tail(accounts), insert_options, e, default_filename)

\* find_insert_position(entry, insert_options, default_filename); e.accounts is
\* what the external get_entry_accounts(entry) gives.
find_insert_position(e, insert_options, default_filename) ==
    position_loop(e.accounts, sorted_by_date_desc(insert_options), e, default_filename)

\* The new text put before the contents of the file.
prepended(contents, content) ==
    content \o <<NL>> \o join(contents)

\* contents += "\n" + content, as file.writelines(contents) writes it.
appended(contents, content) ==
    join(contents) \o <<NL>> \o content

\* added_lines without the line that the inserted "\n" ends.
added_lines_short(content) ==
    count_nl(content)

\* added_lines = content.count("\n") + 1
added_lines(content) ==
    count_nl(content) + 1

\* Only the options strictly below the line the text was inserted before.
shifts_below(option, filename, lineno) ==
    option.filename = filename /\ option.lineno > lineno + 1

\* The options insert_entry moves down: those of the file at or below the
\* inserted text (lineno is the 0-based index the text was inserted at).
shifts(option, filename, lineno) ==
    option.filename = filename /\ option.lineno > lineno

\* insert_entry(entry, default_filename, insert_options, currency_column) on
\* file system fs: ret is <<the updated insert options>>.
insert_entry(fs, e, default_filename, insert_options) ==
    LET position == find_insert_position(e, insert_options, default_filename)
        filename == position[1]
        content == format_entry_text(e)
    IN  IF filename \notin DOMAIN fs THEN Raise("FileNotFoundError", "", fs)
        ELSE LET contents == readlines(fs[filename])
             IN  IF Len(position) = 1
                 THEN Return(<<insert_options>>,
                             [fs EXCEPT ![filename] = appended(contents, content)])
                 ELSE LET lineno == position[2]
                      IN  Return(
                              <<[i \in DOMAIN insert_options |->
                                   IF shifts(insert_options[i], filename, lineno)
                                   THEN [insert_options[i] EXCEPT
                                            !.lineno = @ + added_lines(content)]
                                   ELSE insert_options[i]]>>,
                              write_lines(fs, filename,
                                          list_insert(contents, lineno, content \o <<NL>>)))

-----------------------------------------------------------------------------
(* Inputs *)

\* The kinds of line a Beancount file has: a top-level line, an indented line,
\* an empty line and a whitespace-only line.
LinePool == {<<"a", NL>>, <<" ", "a", NL>>, <<NL>>, <<" ", NL>>}

\* The sequences of at most n lines of LinePool.
RECURSIVE LineSeqs(_)
LineSeqs(n) ==
    IF n = 0 THEN {<<>>}
    ELSE LET shorter == LineSeqs(n - 1)
         IN  shorter \cup {Append(ls, l) : ls \in shorter, l \in LinePool}

\* The texts of at most n lines, the last line with or without its terminator.
Texts(n) ==
    LET whole == {join(ls) : ls \in LineSeqs(n)}
    IN  whole \cup {SubSeq(t, 1, Len(t) - 1) : t \in whole \ {<<>>}}

\* The entries of the ledger that was loaded from content: each line of the file
\* can be the first line of an entry.
EntriesOf(content) ==
    {[filename |-> MAIN, lineno |-> n] : n \in 1..Len(readlines(content))}

NoCall == [op |-> "", args |-> <<>>, pre |-> <<>>, exc |-> "none", msg |-> "", ret |-> <<>>]

Called(op, args, pre, out) ==
    [op |-> op, args |-> args, pre |-> pre, exc |-> out.exc, msg |-> out.msg, ret |-> out.ret]

-----------------------------------------------------------------------------
(* Threads *)

Threads == {"t1", "t2"}

Free == "free"

\* op, path, text, sha256sum: the call and its arguments (text is the source,
\* the source_slice or the value); basekey, key: the argument of
\* insert_metadata and the key chosen for it; rest: the sorted entries that
\* insert_entries has still to insert; original, lines: the local variables
\* original_sha256sum (set_source) and lines (save_entry_slice); exc, msg, ret:
\* the outcome; seen, left: the file system when the thread took the lock and
\* when its call ended.
NoFrame ==
    [op |-> "", path |-> "", text |-> <<>>, sha256sum |-> <<>>,
     basekey |-> <<>>, key |-> <<>>, rest |-> <<>>,
     original |-> <<>>, lines |-> <<>>, seen |-> <<>>, left |-> <<>>,
     exc |-> "none", msg |-> "", ret |-> <<>>]

threadVars == <<lock, pc, frame, hooks, loads>>

\* No thread is in the module: the state of the specifications of one caller.
NoThreads ==
    /\ lock = Free
    /\ pc = [t \in Threads |-> "idle"]
    /\ frame = [t \in Threads |-> NoFrame]
    /\ hooks = <<>>
    /\ loads = <<>>

insertVars == <<options, orig>>

\* No insert options are in play: the state of the specifications that insert
\* no entry.
NoOptions ==
    /\ options = <<>>
    /\ orig = <<>>

-----------------------------------------------------------------------------
(* Slice editing by one caller, the file rewritten by nobody else *)

InitSlice ==
    /\ \E content \in Texts(MaxLines) \ {<<>>} :
         /\ files = (MAIN :> content)
         /\ entry \in EntriesOf(content)
    /\ held = <<>>
    /\ call = NoCall
    /\ ext = 0
    /\ NoThreads
    /\ NoOptions

\* The caller reads the slice of the entry and keeps the text and its sha256sum.
GetEntrySlice ==
    /\ held = <<>>
    /\ LET out == get_entry_slice(files, entry)
       IN  /\ call' = Called("get_entry_slice", <<>>, files, out)
           /\ held' = out.ret
           /\ files' = out.fs
    /\ UNCHANGED <<entry, ext>>
    /\ UNCHANGED threadVars
    /\ UNCHANGED insertVars

\* The caller saves source_slice with the sha256sum it holds.
SaveEntrySlice(texts) ==
    /\ held # <<>>
    /\ call.op # "save_entry_slice"
    /\ \E source_slice \in texts :
         LET out == save_entry_slice(files, entry, source_slice, held[2])
         IN  /\ call' = Called("save_entry_slice", <<source_slice, held[2]>>, files, out)
             /\ files' = out.fs
    /\ UNCHANGED <<entry, held, ext>>
    /\ UNCHANGED threadVars
    /\ UNCHANGED insertVars

NextSlice ==
    \/ GetEntrySlice
    \/ SaveEntrySlice(Texts(MaxTextLines))

SpecSlice == InitSlice /\ [][NextSlice]_vars

-----------------------------------------------------------------------------
(* Slice editing with the file rewritten or removed by another process *)

InitExt ==
    /\ \E content \in Texts(MaxExtLines) \ {<<>>} :
         /\ files = (MAIN :> content)
         /\ entry \in EntriesOf(content)
    /\ held = <<>>
    /\ call = NoCall
    /\ ext = 0
    /\ NoThreads
    /\ NoOptions

\* Another process rewrites the file after the caller read the slice.
ExternalRewrite ==
    /\ held # <<>>
    /\ call.op = "get_entry_slice"
    /\ ext = 0
    /\ \E content \in Texts(MaxExtLines) :
         /\ MAIN \in DOMAIN files
         /\ content # files[MAIN]
         /\ files' = (MAIN :> content)
    /\ ext' = 1
    /\ UNCHANGED <<entry, held, call>>
    /\ UNCHANGED threadVars
    /\ UNCHANGED insertVars

\* Another process removes the file after the caller read the slice.
ExternalDelete ==
    /\ held # <<>>
    /\ call.op = "get_entry_slice"
    /\ ext = 0
    /\ files' = <<>>
    /\ ext' = 1
    /\ UNCHANGED <<entry, held, call>>
    /\ UNCHANGED threadVars
    /\ UNCHANGED insertVars

\* The caller reads the slice again after the file was rewritten or removed.
RefetchEntrySlice ==
    /\ ext = 1
    /\ call.op = "get_entry_slice"
    /\ LET out == get_entry_slice(files, entry)
       IN  /\ call' = Called("get_entry_slice", <<>>, files, out)
           /\ held' = IF out.exc = "none" THEN out.ret ELSE held
           /\ files' = out.fs
    /\ ext' = 2
    /\ UNCHANGED entry
    /\ UNCHANGED threadVars
    /\ UNCHANGED insertVars

NextExt ==
    \/ GetEntrySlice
    \/ ExternalRewrite
    \/ ExternalDelete
    \/ RefetchEntrySlice
    \/ SaveEntrySlice(Texts(MaxExtTextLines))

SpecExt == InitExt /\ [][NextExt]_vars

-----------------------------------------------------------------------------
(* Threads calling set_source and FileModule.save_entry_slice *)

\* The new contents the threads write.
ConcTexts == {<<"a">>, <<"a", NL>>, <<" ", "a">>, <<>>}

StaleSha == sha256_str(<<"s", "t", "a", "l", "e">>)

\* The ledger was loaded from the files; the callers have read the file and the
\* slice of the entry, and hold their sha256sums.
InitConc ==
    /\ \E content \in Texts(MaxConcLines) \ {<<>>} :
         /\ files = (MAIN :> content) @@ (NOTES :> content)
         /\ entry \in EntriesOf(content)
    /\ held = get_entry_slice(files, entry).ret
    /\ call = [NoCall EXCEPT !.op = "load_file", !.pre = files]
    /\ ext = 0
    /\ NoThreads
    /\ NoOptions

\* Thread t calls set_source(path, source, sha256sum), the source one of
\* sources, and reaches its with.
CallSetSourceOf(t, sources) ==
    /\ pc[t] = "idle"
    /\ \E path \in {MAIN, NOTES}, source \in sources,
          sha256sum \in {get_source(call.pre, MAIN).ret[2], StaleSha} :
         frame' = [frame EXCEPT ![t] = [NoFrame EXCEPT !.op = "set_source",
                       !.path = path, !.text = source, !.sha256sum = sha256sum]]
    /\ pc' = [pc EXCEPT ![t] = "lock"]
    /\ UNCHANGED <<files, entry, held, call, ext, lock, hooks, loads>>
    /\ UNCHANGED insertVars

CallSetSource(t) ==
    CallSetSourceOf(t, ConcTexts)

\* Thread t calls FileModule.save_entry_slice(entry_hash, source_slice,
\* sha256sum) for the entry, the source_slice one of slices, and reaches its
\* with.
CallSaveEntrySliceOf(t, slices) ==
    /\ pc[t] = "idle"
    /\ \E source_slice \in slices, sha256sum \in {held[2], StaleSha} :
         frame' = [frame EXCEPT ![t] = [NoFrame EXCEPT !.op = "save_entry_slice",
                       !.path = entry.filename, !.text = source_slice,
                       !.sha256sum = sha256sum]]
    /\ pc' = [pc EXCEPT ![t] = "lock"]
    /\ UNCHANGED <<files, entry, held, call, ext, lock, hooks, loads>>
    /\ UNCHANGED insertVars

CallSaveEntrySlice(t) ==
    CallSaveEntrySliceOf(t, ConcTexts)

\* with self.lock: thread t takes the lock when it is free.
Acquire(t) ==
    /\ pc[t] = "lock"
    /\ lock = Free
    /\ lock' = t
    /\ frame' = [frame EXCEPT ![t].seen = files]
    /\ pc' = [pc EXCEPT ![t] =
                 CASE frame[t].op = "set_source" -> "get_source"
                   [] frame[t].op = "save_entry_slice" -> "slice_read"
                   [] frame[t].op = "insert_metadata" -> "next_key"
                   [] frame[t].op = "insert_entries" -> "insert_entry"]
    /\ UNCHANGED <<files, entry, held, call, ext, hooks, loads>>
    /\ UNCHANGED insertVars

\* An exception that leaves the with and keeps the lock.
RaisedKeepingLock(t, out) ==
    /\ frame' = [frame EXCEPT ![t].exc = out.exc, ![t].msg = out.msg, ![t].left = files]
    /\ UNCHANGED lock
    /\ pc' = [pc EXCEPT ![t] = "done"]

\* The call of thread t ends with an exception inside the with, which releases
\* the lock.
Raised(t, out) ==
    /\ frame' = [frame EXCEPT ![t].exc = out.exc, ![t].msg = out.msg, ![t].left = files]
    /\ lock' = Free
    /\ pc' = [pc EXCEPT ![t] = "done"]

\* set_source: _, original_sha256sum = self.get_source(path)
GetSource(t) ==
    /\ pc[t] = "get_source"
    /\ LET out == get_source(files, frame[t].path)
       IN  IF out.exc # "none" THEN Raised(t, out)
           ELSE /\ frame' = [frame EXCEPT ![t].original = out.ret[2]]
                /\ pc' = [pc EXCEPT ![t] = "write_source"]
                /\ UNCHANGED lock
    /\ UNCHANGED <<files, entry, held, call, ext, hooks, loads>>
    /\ UNCHANGED insertVars

\* set_source: the comparison of the sha256sums, and the write of the file.
WriteSource(t) ==
    /\ pc[t] = "write_source"
    /\ IF changed_externally(frame[t].original, frame[t].sha256sum)
       THEN /\ Raised(t, Raise(FavaAPIException, CONFLICT_MSG, files))
            /\ UNCHANGED files
       ELSE /\ files' = write_lines(files, frame[t].path, <<frame[t].text>>)
            /\ pc' = [pc EXCEPT ![t] = "run_hook"]
            /\ UNCHANGED <<lock, frame>>
    /\ UNCHANGED <<entry, held, call, ext, hooks, loads>>
    /\ UNCHANGED insertVars

\* set_source: self.ledger.extensions.run_hook("after_write_source", path, source)
RunHook(t) ==
    /\ pc[t] = "run_hook"
    /\ hooks' = Append(hooks, <<t, "after_write_source", frame[t].path, frame[t].text>>)
    /\ pc' = [pc EXCEPT ![t] = "load_file"]
    /\ UNCHANGED <<files, entry, held, call, ext, lock, frame, loads>>
    /\ UNCHANGED insertVars

\* set_source: self.ledger.load_file()
LoadFile(t) ==
    /\ pc[t] = "load_file"
    /\ loads' = Append(loads, t)
    /\ pc' = [pc EXCEPT ![t] = "return"]
    /\ UNCHANGED <<files, entry, held, call, ext, lock, frame, hooks>>
    /\ UNCHANGED insertVars

\* The return of thread t out of the with, which releases the lock: the
\* sha256sum of what it wrote.
ReturnSha(t) ==
    /\ pc[t] = "return"
    /\ frame' = [frame EXCEPT ![t].ret = <<sha256_str(frame[t].text)>>, ![t].left = files]
    /\ lock' = Free
    /\ pc' = [pc EXCEPT ![t] = "done"]
    /\ UNCHANGED <<files, entry, held, call, ext, hooks, loads>>
    /\ UNCHANGED insertVars

\* save_entry_slice up to its write.
SliceRead(t) ==
    /\ pc[t] = "slice_read"
    /\ LET out == save_entry_slice_read(files, entry, frame[t].text, frame[t].sha256sum)
       IN  IF out.exc # "none" THEN Raised(t, out)
           ELSE /\ frame' = [frame EXCEPT ![t].lines = out.ret[1]]
                /\ pc' = [pc EXCEPT ![t] = "slice_write"]
                /\ UNCHANGED lock
    /\ UNCHANGED <<files, entry, held, call, ext, hooks, loads>>
    /\ UNCHANGED insertVars

\* save_entry_slice: the write of the file.
SliceWrite(t) ==
    /\ pc[t] = "slice_write"
    /\ files' = write_lines(files, entry.filename, frame[t].lines)
    /\ pc' = [pc EXCEPT ![t] = "return"]
    /\ UNCHANGED <<entry, held, call, ext, lock, frame, hooks, loads>>
    /\ UNCHANGED insertVars

NextConc ==
    \E t \in Threads :
        \/ CallSetSource(t)
        \/ CallSaveEntrySlice(t)
        \/ Acquire(t)
        \/ GetSource(t)
        \/ WriteSource(t)
        \/ RunHook(t)
        \/ LoadFile(t)
        \/ ReturnSha(t)
        \/ SliceRead(t)
        \/ SliceWrite(t)

SpecConc == InitConc /\ [][NextConc]_vars

-----------------------------------------------------------------------------
(* Entries inserted one after the other, the options handed from call to call *)

\* A second file of the ledger.
INC == "inc.beancount"

\* The files the entries are inserted into; the last line of the main file has
\* or lacks its terminator.
MainContents == {<<"a", NL, "b", NL>>, <<"a", NL, "b">>}

IncContent == <<"d", NL>>

Accounts == {"Assets", "Expenses"}

\* The places an insert-entry option of the ledger can stand at: a line of one
\* of the files.
OptionPlaces(fs) ==
    {<<f, n>> : f \in {MAIN}, n \in 1..Len(readlines(fs[MAIN]))} \cup {<<INC, 1>>}

InsertOptions(fs) ==
    {[date |-> 1, re |-> {a}, filename |-> p[1], lineno |-> p[2]] :
        a \in Accounts, p \in OptionPlaces(fs)}

\* The lists of at most n of the options in os.
RECURSIVE OptionLists(_, _)
OptionLists(os, n) ==
    IF n = 0 THEN {<<>>}
    ELSE LET shorter == OptionLists(os, n - 1)
         IN  shorter \cup {Append(l, o) : l \in shorter, o \in os}

\* The entries to insert: of the date of the options or a later one, with no
\* account or one, of two lines (with trailing whitespace) or of one
\* unterminated line.
NewEntries ==
    {[date |-> h[1], accounts |-> h[2], raw |-> r] :
        h \in {<<1, <<"Assets">>>>, <<2, <<>>>>, <<2, <<"Assets">>>>, <<2, <<"Expenses">>>>},
        r \in {<<"x", " ", NL, " ", "y", NL>>, <<"z">>}}

\* The line a position (filename, 1-based lineno) designates, without its
\* terminator: <<line>>, or <<>> when the file has no such line.
LineOf(fs, filename, lineno) ==
    LET lines == readlines(fs[filename])
    IN  IF lineno \in 1..Len(lines) THEN <<rstrip_nl(lines[lineno])>> ELSE <<>>

InitInsert ==
    /\ \E content \in MainContents : files = (MAIN :> content) @@ (INC :> IncContent)
    /\ options \in OptionLists(InsertOptions(files), MaxOptions)
    /\ orig = [i \in DOMAIN options |->
                  LineOf(files, options[i].filename, options[i].lineno)]
    /\ entry = [filename |-> MAIN, lineno |-> 1]
    /\ held = <<>>
    /\ call = NoCall
    /\ ext = 0
    /\ NoThreads

\* One turn of the loop of FileModule.insert_entries: insert_entry with the
\* current options, the returned options kept for the next turn, and the hook.
InsertEntry ==
    /\ Len(hooks) < MaxInserts
    /\ \E e \in NewEntries :
         \E out \in {insert_entry(files, e, MAIN, options)} :
             /\ call' = Called("insert_entry", <<e, MAIN, options>>, files, out)
             /\ files' = out.fs
             /\ options' = out.ret[1]
             /\ hooks' = Append(hooks, <<"after_insert_entry", e>>)
    /\ UNCHANGED <<entry, held, ext, lock, pc, frame, loads, orig>>

NextInsert ==
    InsertEntry

SpecInsert == InitInsert /\ [][NextInsert]_vars

-----------------------------------------------------------------------------
(* find_insert_position applied to a list of options and an entry *)

RouteOptions ==
    {[date |-> d, re |-> re, filename |-> p[1], lineno |-> p[2]] :
        d \in {1, 2, 3},
        re \in {{"Assets"}, {"Expenses"}, {"Assets", "Expenses"}},
        p \in {<<MAIN, 1>>, <<INC, 2>>}}

RouteEntries ==
    {[date |-> d, accounts |-> as, raw |-> <<"z">>] :
        d \in {1, 2, 3},
        as \in {<<>>, <<"Assets">>, <<"Expenses">>,
                 <<"Assets", "Expenses">>, <<"Expenses", "Assets">>}}

InitRoute ==
    /\ files = (MAIN :> <<"a", NL>>) @@ (INC :> <<"d", NL, "e", NL>>)
    /\ options \in OptionLists(RouteOptions, MaxRouteOptions)
    /\ orig = [i \in DOMAIN options |->
                  LineOf(files, options[i].filename, options[i].lineno)]
    /\ entry = [filename |-> MAIN, lineno |-> 1]
    /\ held = <<>>
    /\ call = NoCall
    /\ ext = 0
    /\ NoThreads

\* find_insert_position is applied to an entry and the options.
FindInsertPosition ==
    /\ call.op = ""
    /\ \E e \in RouteEntries :
         call' = Called("find_insert_position", <<e, MAIN, options>>, files,
                        Return(find_insert_position(e, options, MAIN), files))
    /\ UNCHANGED <<files, entry, held, ext, options, orig>>
    /\ UNCHANGED threadVars

NextRoute ==
    FindInsertPosition

SpecRoute == InitRoute /\ [][NextRoute]_vars

-----------------------------------------------------------------------------
(* Claims about inserting entries *)

\* The options of list opts that are dated before entry e and match account.
Eligible(opts, e, account) ==
    {i \in DOMAIN opts : opts[i].date < e.date /\ account \in opts[i].re}

\* The last call inserted entry e: where routing put it, and its text.
CallEntry == call.args[1]
CallOptions == call.args[3]
CallPosition == find_insert_position(CallEntry, CallOptions, call.args[2])
CallContent == format_entry_text(CallEntry)

\* The options as the line-shift rule with threshold lineno > least leaves them,
\* for an insert of content into file filename.
ShiftedFrom(opts, filename, least, content) ==
    [i \in DOMAIN opts |->
        IF opts[i].filename = filename /\ opts[i].lineno > least
        THEN [opts[i] EXCEPT !.lineno = @ + count_nl(content) + 1]
        ELSE opts[i]]

\* C4 (as claimed): after an insert at 0-based position P of file F, exactly the
\* options of F with lineno > P + 1 have moved down by the number of newlines
\* of the content plus one; the others are returned as they were.
C4_ShiftsOnlyBelowInsertLine ==
    (call.op = "insert_entry" /\ call.exc = "none" /\ Len(CallPosition) = 2)
        => call.ret[1] = ShiftedFrom(CallOptions, CallPosition[1],
                                     CallPosition[2] + 1, CallContent)

\* C4 (amended): after an insert at 0-based position P of file F, exactly the
\* options of F with lineno > P, the matched option (lineno = P + 1) among them,
\* have moved down by the number of newlines of the content plus one; the
\* others are returned as they were, in the same order; and the content and a
\* newline stand before the line that was at position P.
C4_ShiftsFromInsertLine ==
    (call.op = "insert_entry" /\ call.exc = "none" /\ Len(CallPosition) = 2)
        => /\ call.ret[1] = ShiftedFrom(CallOptions, CallPosition[1],
                                        CallPosition[2], CallContent)
           /\ files[CallPosition[1]] =
                  join(list_insert(readlines(call.pre[CallPosition[1]]),
                                   CallPosition[2], CallContent \o <<NL>>))

\* C4, witness: an insert before line 2 of a file moved the option of line 2
\* and left an option of line 1 of the same file where it was.
C4_Witness ==
    /\ call.op = "insert_entry"
    /\ Len(CallPosition) = 2
    /\ CallPosition[2] = 1
    /\ \E i, j \in DOMAIN CallOptions :
         /\ CallOptions[i].filename = CallPosition[1]
         /\ CallOptions[i].lineno = 2
         /\ call.ret[1][i].lineno > 2
         /\ CallOptions[j].filename = CallPosition[1]
         /\ CallOptions[j].lineno = 1
         /\ call.ret[1][j].lineno = 1

\* C5: through every sequence of inserts that hands the returned options to the
\* next insert, each option designates the line of its file that it designated
\* when the ledger was loaded.
C5_OptionsKeepTheirLines ==
    \A i \in DOMAIN options :
        LineOf(files, options[i].filename, options[i].lineno) = orig[i]

\* C5, witness: after two inserts an option stands at line 6 or below, which
\* one insert cannot move it to.
C5_Witness ==
    /\ Len(hooks) = 2
    /\ \E i \in DOMAIN options : options[i].lineno >= 6 /\ orig[i] # <<>>

\* C6: when an account of the entry has an option dated before the entry that
\* matches it, find_insert_position returns the place of the option chosen so:
\* the first such account in the entry's order; among its options the latest
\* date; among those of that date the first of the list.
C6_RoutingPriority ==
    call.op = "find_insert_position" =>
        LET e == CallEntry
            opts == CallOptions
            ks == {k \in DOMAIN e.accounts : Eligible(opts, e, e.accounts[k]) # {}}
        IN  ks # {} =>
                LET k == CHOOSE x \in ks : \A y \in ks : x <= y
                    el == Eligible(opts, e, e.accounts[k])
                    best == CHOOSE i \in el : \A j \in el :
                                \/ opts[j].date < opts[i].date
                                \/ opts[j].date = opts[i].date /\ i <= j
                IN  call.ret = <<opts[best].filename, opts[best].lineno - 1>>

\* C6, witness: the option of the entry's first account was returned although
\* the option of its second account is more recent and stands elsewhere.
C6_Witness ==
    /\ call.op = "find_insert_position"
    /\ Len(CallEntry.accounts) = 2
    /\ \E i, j \in DOMAIN CallOptions :
         /\ i \in Eligible(CallOptions, CallEntry, CallEntry.accounts[1])
         /\ j \in Eligible(CallOptions, CallEntry, CallEntry.accounts[2])
         /\ CallOptions[j].date > CallOptions[i].date
         /\ CallOptions[j].filename # CallOptions[i].filename
         /\ call.ret = <<CallOptions[i].filename, CallOptions[i].lineno - 1>>

\* No option is dated before the entry and matches one of its accounts.
NoneEligible(opts, e) ==
    \A k \in DOMAIN e.accounts : Eligible(opts, e, e.accounts[k]) = {}

\* C7: when no option is eligible and matches, insert_entry changes the default
\* file only, what the file held is the beginning of what it holds now, the
\* text of the entry is its end, and the options are returned as they were.
C7_AppendFallback ==
    (call.op = "insert_entry" /\ NoneEligible(CallOptions, CallEntry))
        => LET old == call.pre[MAIN]
               new == files[MAIN]
           IN  /\ call.exc = "none"
               /\ \A f \in DOMAIN call.pre \ {MAIN} : files[f] = call.pre[f]
               /\ DOMAIN files = DOMAIN call.pre
               /\ Len(new) >= Len(old) + Len(CallContent)
               /\ SubSeq(new, 1, Len(old)) = old
               /\ SubSeq(new, Len(new) - Len(CallContent) + 1, Len(new)) = CallContent
               /\ call.ret[1] = CallOptions

\* C7, witness: an entry was appended although an option names its account,
\* because the option is not dated before the entry.
C7_Witness ==
    /\ call.op = "insert_entry"
    /\ NoneEligible(CallOptions, CallEntry)
    /\ \E i \in DOMAIN CallOptions, k \in DOMAIN CallEntry.accounts :
         CallEntry.accounts[k] \in CallOptions[i].re
    /\ files[MAIN] # call.pre[MAIN]

-----------------------------------------------------------------------------
(* A metadata line inserted below the first line of an entry *)

MetaKeys == {<<"k">>}

MetaValues == {<<"v">>, <<>>}

InitMeta ==
    /\ \E content \in Texts(MaxMetaLines) \ {<<>>} :
         /\ files = (MAIN :> content)
         /\ entry \in EntriesOf(content)
    /\ held = <<>>
    /\ call = NoCall
    /\ ext = 0
    /\ NoThreads
    /\ NoOptions

\* insert_metadata_in_file is called for the entry with a key and a value.
InsertMetadataInFile ==
    /\ call.op = ""
    /\ \E key \in MetaKeys, value \in MetaValues :
         \E out \in {insert_metadata_in_file(files, entry.filename, entry.lineno,
                                             key, value)} :
             /\ call' = Called("insert_metadata_in_file", <<key, value>>, files, out)
             /\ files' = out.fs
    /\ UNCHANGED <<entry, held, ext>>
    /\ UNCHANGED threadVars
    /\ UNCHANGED insertVars

NextMeta ==
    InsertMetadataInFile

SpecMeta == InitMeta /\ [][NextMeta]_vars

-----------------------------------------------------------------------------
(* Claims about metadata *)

\* The blanks a line starts with, its terminator not among them.
Blanks(line) ==
    LET text == rstrip_nl(line)
    IN  SubSeq(text, 1, Len(text) - Len(lstrip(text)))

\* C10 (as claimed): insert_metadata_in_file adds exactly one line, at 0-based
\* position lineno, which reads <indent>key: "value" with the leading blanks of
\* the line that followed the header, or two spaces when there is no such line
\* or it starts with no blank; every line the file had is still there,
\* unmodified and in order.
C10_MetadataAddsOneLine ==
    call.op = "insert_metadata_in_file" =>
        LET old == readlines(call.pre[entry.filename])
            new == readlines(files[entry.filename])
            n == entry.lineno
            indent == IF n < Len(old) /\ Blanks(old[n + 1]) # <<>>
                      THEN Blanks(old[n + 1])
                      ELSE <<" ", " ">>
        IN  /\ call.exc = "none"
            /\ Len(new) = Len(old) + 1
            /\ new[n + 1] = indent \o call.args[1] \o <<":", " ", "\"">>
                                 \o call.args[2] \o <<"\"", NL>>
            /\ \A i \in 1..n : new[i] = old[i]
            /\ \A i \in (n + 1)..Len(old) : new[i + 1] = old[i]

-----------------------------------------------------------------------------
(* Claims about the threads *)

\* Both threads made the same kind of guarded write to the same target, with the
\* sha256sum that was valid when they started and with two different new
\* contents, each different from the content the target had.
SameTargetRace ==
    /\ frame["t1"].op = frame["t2"].op
    /\ frame["t1"].text # frame["t2"].text
    /\ \A t \in Threads :
         \/ /\ frame[t].op = "set_source"
            /\ frame[t].path = MAIN
            /\ frame[t].sha256sum = sha256_str(call.pre[MAIN])
            /\ frame[t].text # call.pre[MAIN]
         \/ /\ frame[t].op = "save_entry_slice"
            /\ frame[t].sha256sum = held[2]
            /\ frame[t].text # held[1]

\* Thread w won: its call returned, the call of the other thread l failed with
\* Conflict, and the target holds what w wrote.
WonAgainst(w, l) ==
    /\ frame[w].exc = "none"
    /\ frame[l].exc = FavaAPIException
    /\ frame[l].msg = CONFLICT_MSG
    /\ IF frame[w].op = "set_source"
       THEN files[MAIN] = frame[w].text
       ELSE files = save_entry_slice(call.pre, entry, frame[w].text, held[2]).fs

\* C3 (as claimed): of two threads that make a guarded write to the same target
\* with the same valid sha256sum and different new contents, exactly one
\* succeeds, the other fails with Conflict, and the target holds the content of
\* the one that succeeded.
C3_ExactlyOneWriterWins ==
    (pc["t1"] = "done" /\ pc["t2"] = "done" /\ SameTargetRace)
        => (WonAgainst("t1", "t2") \/ WonAgainst("t2", "t1"))

\* The call of thread t is a set_source that has to be rejected: its path is not
\* a source file, or its sha256sum is not the one of the file as it was when the
\* thread took the lock.
MustReject(t) ==
    /\ frame[t].op = "set_source"
    /\ \/ frame[t].path \notin Include
       \/ sha256_str(frame[t].seen[frame[t].path]) # frame[t].sha256sum

\* C8: a set_source that has to be rejected ends with the domain error, leaves
\* the files as they were, runs no hook, loads nothing, and does not keep the lock.
C8_RejectedSetSourceChangesNothing ==
    \A t \in Threads :
        (pc[t] = "done" /\ MustReject(t))
            => /\ frame[t].exc = FavaAPIException
               /\ frame[t].left = frame[t].seen
               /\ \A i \in 1..Len(hooks) : hooks[i][1] # t
               /\ \A i \in 1..Len(loads) : loads[i] # t
               /\ lock # t

\* C8, witness: one thread was rejected for a path that is not a source file, the
\* other for a sha256sum that is not the file's.
C8_Witness ==
    \E t, u \in Threads :
        /\ pc[t] = "done" /\ MustReject(t) /\ frame[t].path \notin Include
        /\ pc[u] = "done" /\ MustReject(u) /\ frame[u].path \in Include
        /\ frame[u].msg = CONFLICT_MSG

-----------------------------------------------------------------------------
(* Claims about entry slices *)

\* C1 (as claimed): saving exactly the text and sha256sum that get_entry_slice
\* just returned succeeds and leaves the file as it was, for every file content
\* and every entry of it.
C1_RoundTripLeavesFileUnchanged ==
    (call.op = "save_entry_slice" /\ call.args = held)
        => (call.exc = "none" /\ files = call.pre)

\* The text of the entry in file system fs is no longer the text the caller read:
\* its first line is gone, or the slice located there reads differently.
EntryTextChanged(fs) ==
    LET now == get_entry_slice(fs, entry)
    IN  now.exc # "none" \/ now.ret[1] # held[1]

\* C2 (as claimed): a save with a sha256sum taken before an external rewrite
\* that changed the lines of the entry (the file still exists, possibly
\* shorter) fails with the Conflict error and writes nothing.
C2_StaleFingerprintConflicts ==
    (/\ call.op = "save_entry_slice"
     /\ ext = 1
     /\ MAIN \in DOMAIN call.pre
     /\ EntryTextChanged(call.pre))
        => (/\ call.exc = FavaAPIException
            /\ call.msg = CONFLICT_MSG
            /\ files = call.pre)

\* The first line of the entry, or its file, does not exist in file system fs.
EntryGone(fs) ==
    \/ entry.filename \notin DOMAIN fs
    \/ entry.lineno - 1 >= Len(readlines(fs[entry.filename]))

\* C9 (as claimed): when the line recorded for the entry or its file no longer
\* exists, get_entry_slice and save_entry_slice fail with the module's domain
\* error and nothing is written.
C9_NotFoundIsDomainError ==
    (call.op \in {"get_entry_slice", "save_entry_slice"} /\ EntryGone(call.pre))
        => (call.exc = FavaAPIException /\ files = call.pre)

-----------------------------------------------------------------------------
(* FileModule.insert_metadata: the key is chosen by next_key *)

\* Keys of entry.meta beside the ones a user gives.
MaxKeys == 3

\* str(i) for i >= 0: the decimal digits.
RECURSIVE str_int(_)
str_int(i) ==
    LET digit(d) == <<"0", "1", "2", "3", "4", "5", "6", "7", "8", "9">>[d + 1]
    IN  IF i < 10 THEN <<digit(i)>> ELSE str_int(i \div 10) \o <<digit(i % 10)>>

\* f"{basekey}-{i}"
suffixed(basekey, i) ==
    basekey \o <<"-">> \o str_int(i)

\* The while loop of next_key, i the number tried next.
RECURSIVE next_key_loop(_, _, _)
next_key_loop(basekey, keys, i) ==
    IF suffixed(basekey, i) \in keys THEN next_key_loop(basekey, keys, i + 1)
    ELSE suffixed(basekey, i)

\* A next_key that numbers from 1.
next_key_from_one(basekey, keys) ==
    IF basekey \notin keys THEN basekey ELSE next_key_loop(basekey, keys, 1)

\* next_key(basekey, keys): keys is the set of the keys of the dict.
next_key(basekey, keys) ==
    IF basekey \notin keys THEN basekey ELSE next_key_loop(basekey, keys, 2)

\* The keys every entry.meta has.
FILENAME_KEY == <<"f", "i", "l", "e", "n", "a", "m", "e">>
LINENO_KEY == <<"l", "i", "n", "e", "n", "o">>

\* The keys a user can have given to the entry, and the base keys asked for.
UserKeys ==
    {<<"k">>, <<"k", "-", "2">>, <<"k", "-", "3">>, <<"k", "-", "4">>,
     <<"k", "-", "0", "2">>, <<"j">>, <<"k", "-", "2", "-", "2">>}

BaseKeys == {<<"k">>, <<"j">>, <<"k", "-", "2">>, LINENO_KEY}

\* The sets of at most n elements of set.
RECURSIVE SubsetsUpTo(_, _)
SubsetsUpTo(set, n) ==
    IF n = 0 THEN {{}}
    ELSE LET smaller == SubsetsUpTo(set, n - 1)
         IN  smaller \cup {s \cup {x} : s \in smaller, x \in set}

\* The entry of the ledger has a two-line slice in the file; entry.keys is the
\* set of the keys of entry.meta.
InitKey ==
    /\ files = (MAIN :> <<"a", NL, " ", "b", NL>>)
    /\ \E keys \in SubsetsUpTo(UserKeys, MaxKeys) :
         entry = [filename |-> MAIN, lineno |-> 1,
                  keys |-> keys \cup {FILENAME_KEY, LINENO_KEY}]
    /\ held = <<>>
    /\ call = NoCall
    /\ ext = 0
    /\ NoThreads
    /\ NoOptions

\* FileModule.insert_metadata(entry_hash, basekey, value) by one caller: under
\* the lock it chooses the key, inserts the line and runs the hook; the lock
\* is free again when the call ends.
InsertMetadata ==
    /\ call.op = ""
    /\ lock = Free
    /\ \E basekey \in BaseKeys, value \in MetaValues :
         \E key \in {next_key(basekey, entry.keys)} :
             \E out \in {insert_metadata_in_file(files, entry.filename,
                                                 entry.lineno, key, value)} :
                 /\ call' = Called("insert_metadata", <<basekey, value>>, files,
                                   [out EXCEPT !.ret = <<key>>])
                 /\ files' = out.fs
                 /\ hooks' = Append(hooks, <<"after_insert_metadata", key, value>>)
    /\ UNCHANGED <<entry, held, ext, lock, pc, frame, loads>>
    /\ UNCHANGED insertVars

NextKey ==
    InsertMetadata

SpecKey == InitKey /\ [][NextKey]_vars

\* C11: the key that FileModule.insert_metadata inserts is the base key when
\* the entry's metadata does not have it, and otherwise the base key, "-" and
\* the smallest integer from 2 on for which the metadata has no such key; it is
\* never a key of the entry's metadata, and it is the key of the line written
\* and of the hook.
C11_NextKeyIsFresh ==
    call.op = "insert_metadata" =>
        LET basekey == call.args[1]
            key == call.ret[1]
        IN  /\ key \notin entry.keys
            /\ basekey \notin entry.keys => key = basekey
            /\ basekey \in entry.keys =>
                 \E i \in 2..(Cardinality(entry.keys) + 2) :
                     /\ key = suffixed(basekey, i)
                     /\ \A j \in 2..(i - 1) : suffixed(basekey, j) \in entry.keys
            /\ readlines(files[entry.filename])[entry.lineno + 1] =
                   metadata_line(<<" ">>, key, call.args[2])
            /\ hooks[Len(hooks)] = <<"after_insert_metadata", key, call.args[2]>>

\* C11, witness: the base key and its keys numbered 2 and 3 were taken, and
\* the key numbered 4 was inserted.
C11_Witness ==
    /\ call.op = "insert_metadata"
    /\ {call.args[1], suffixed(call.args[1], 2), suffixed(call.args[1], 3)}
           \subseteq entry.keys
    /\ call.ret[1] = suffixed(call.args[1], 4)

-----------------------------------------------------------------------------
(* find_entry_lines applied to the lines of a file and the line of an entry *)

\* find_entry_lines is applied to the lines of the file and the 0-based index
\* of the first line of the entry.
FindEntryLines ==
    /\ call.op = ""
    /\ LET lines == readlines(files[entry.filename])
           lineno == entry.lineno - 1
       IN  call' = Called("find_entry_lines", <<lines, lineno>>, files,
                          find_entry_lines(lines, lineno))
    /\ UNCHANGED <<files, entry, held, ext>>
    /\ UNCHANGED threadVars
    /\ UNCHANGED insertVars

NextLines ==
    FindEntryLines

SpecLines == InitSlice /\ [][NextLines]_vars

\* A line that ends an entry: it has nothing but whitespace, or it starts with
\* a character that is no whitespace.
EndsEntry(line) ==
    \/ \A i \in 1..Len(line) : line[i] \in {" ", NL}
    \/ line[1] \notin {" ", NL}

\* C12: for a start index s within the lines, find_entry_lines returns the
\* lines from s up to e (exclusive) with e > s, no line strictly between s and
\* e ends an entry, and e is the end of the lines or the index of a line that
\* ends an entry.
C12_EntryBoundary ==
    call.op = "find_entry_lines" =>
        LET lines == call.args[1]
            s == call.args[2]
            e == s + Len(call.ret)
        IN  /\ call.exc = "none"
            /\ e > s
            /\ e <= Len(lines)
            /\ call.ret = SubSeq(lines, s + 1, e)
            /\ \A i \in (s + 1)..(e - 1) : ~EndsEntry(lines[i + 1])
            /\ e = Len(lines) \/ EndsEntry(lines[e + 1])

\* C12, witness: from a start line that is itself indented, the result took
\* one indented line and stopped before a whitespace-only line.
C12_Witness ==
    /\ call.op = "find_entry_lines"
    /\ Len(call.ret) = 2
    /\ call.args[1][call.args[2] + 1] = <<" ", "a", NL>>
    /\ call.args[2] + 2 < Len(call.args[1])
    /\ call.args[1][call.args[2] + 3] = <<" ", NL>>

-----------------------------------------------------------------------------
(* Threads that read while other threads write *)

\* What align(format_entry(entry), currency_column) gives for the entry of the
\* ledger.
PrintedEntry == <<"a", " ", NL>>

\* The call of thread t, a read-only operation that takes no lock, ends.
ReadDone(t, op, path, out) ==
    /\ frame' = [frame EXCEPT ![t] = [NoFrame EXCEPT !.op = op, !.path = path,
                     !.seen = files, !.left = out.fs,
                     !.exc = out.exc, !.msg = out.msg, !.ret = out.ret]]
    /\ pc' = [pc EXCEPT ![t] = "done"]
    /\ UNCHANGED <<files, entry, held, call, ext, lock, hooks, loads>>
    /\ UNCHANGED insertVars

\* Thread t calls FileModule.get_source(path) directly: the file is read with
\* no lock taken.
ReadSource(t) ==
    /\ pc[t] = "idle"
    /\ \E path \in {MAIN, NOTES} :
         ReadDone(t, "get_source", path, get_source(files, path))

\* Thread t renders the entry: render_entries yields the slice of the entry
\* and a newline, or the printed entry when the file is not there; the file is
\* read with no lock taken.
RenderEntries(t) ==
    /\ pc[t] = "idle"
    /\ LET out == get_entry_slice(files, entry)
       IN  ReadDone(t, "render_entries", entry.filename,
                    IF out.exc = "none" THEN Return(<<out.ret[1] \o <<NL>>>>, files)
                    ELSE IF out.exc = "FileNotFoundError"
                    THEN Return(<<format_entry_text([raw |-> PrintedEntry])>>, files)
                    ELSE out)

\* Thread t calls list_sources: the main file, then the other included files.
ListSources(t) ==
    /\ pc[t] = "idle"
    /\ ReadDone(t, "list_sources", "", Return(<<MAIN>>, files))

NextRead ==
    \/ NextConc
    \/ \E t \in Threads :
           \/ ReadSource(t)
           \/ RenderEntries(t)
           \/ ListSources(t)

SpecRead == InitConc /\ [][NextRead]_vars

\* C13 (as claimed): a thread reads a file in get_source or render_entries
\* only while no other thread holds the lock of the module.
C13_ReadersExcludedFromWriters ==
    [][\A t \in Threads :
           (/\ pc[t] = "idle"
            /\ pc'[t] = "done"
            /\ frame'[t].op \in {"get_source", "render_entries"})
               => lock = Free]_vars

-----------------------------------------------------------------------------
(* The order in which insert_entries inserts a batch *)

\* SORT_ORDER.get(type(entry), 0) of beancount.core.data: Open, Balance,
\* Document and Close have an order of their own.
SORT_ORDER_get(type) ==
    CASE type = "Open" -> -2
      [] type = "Balance" -> -1
      [] type = "Document" -> 1
      [] type = "Close" -> 2
      [] OTHER -> 0

\* incomplete_sortkey(entry)
incomplete_sortkey(e) ==
    <<e.date, SORT_ORDER_get(e.type)>>

\* The order of tuples of two numbers: k1 <= k2.
key_le(k1, k2) ==
    k1[1] < k2[1] \/ (k1[1] = k2[1] /\ k1[2] <= k2[2])

\* The entries in the order they were given in.
as_given(entries) ==
    entries

\* sorted(entries, key=incomplete_sortkey): a stable sort.
RECURSIVE sorted_entries(_)
sorted_entries(entries) ==
    IF entries = <<>> THEN <<>>
    ELSE LET last == entries[Len(entries)]
             rest == sorted_entries(SubSeq(entries, 1, Len(entries) - 1))
             k == incomplete_sortkey(last)
         IN  SelectSeq(rest, LAMBDA e : key_le(incomplete_sortkey(e), k))
                 \o <<last>>
                 \o SelectSeq(rest, LAMBDA e : ~key_le(incomplete_sortkey(e), k))

-----------------------------------------------------------------------------
(* The lock in the four writing methods *)

\* Entries of a batch handed to insert_entries.
MaxBatch == 2

\* The new content that set_source and save_entry_slice are given.
LockTexts == {<<"e">>}

\* The batches the threads insert.
LockBatches ==
    LET first == [date |-> 2, type |-> "Transaction", accounts |-> <<"Assets">>,
                  raw |-> <<"x", NL>>]
        second == [date |-> 3, type |-> "Balance", accounts |-> <<>>,
                   raw |-> <<"z">>]
    IN  {b \in {<<>>, <<second>>, <<second, first>>, <<second, first, first>>} :
            Len(b) <= MaxBatch}

\* What a call leaves in the file it rewrites. For the lock it does not matter
\* which lines a call finds and writes, only how its file operations end: so
\* in this specification save_entry_slice, insert_metadata and insert_entries
\* end in any of the ways they can end, and a file they rewrite holds this.
REWRITTEN == <<"r", NL>>

\* The ledger was loaded from the file, and the callers hold the sha256sums of
\* the file and of the slice of the entry.
InitLock ==
    /\ files = (MAIN :> <<"a", NL>>)
    /\ entry = [filename |-> MAIN, lineno |-> 1,
                keys |-> {FILENAME_KEY, LINENO_KEY, <<"k">>}]
    /\ held = get_entry_slice(files, entry).ret
    /\ call = [NoCall EXCEPT !.op = "load_file", !.pre = files]
    /\ ext = 0
    /\ NoThreads
    /\ NoOptions

\* Thread t calls insert_metadata(entry_hash, basekey, value) for the entry and
\* reaches its with.
CallInsertMetadata(t) ==
    /\ pc[t] = "idle"
    /\ frame' = [frame EXCEPT ![t] = [NoFrame EXCEPT !.op = "insert_metadata",
                     !.path = entry.filename, !.basekey = <<"k">>, !.text = <<"v">>]]
    /\ pc' = [pc EXCEPT ![t] = "lock"]
    /\ UNCHANGED <<files, entry, held, call, ext, lock, hooks, loads>>
    /\ UNCHANGED insertVars

\* Thread t calls insert_entries(entries) and reaches its with.
CallInsertEntries(t) ==
    /\ pc[t] = "idle"
    /\ \E entries \in LockBatches :
         frame' = [frame EXCEPT ![t] = [NoFrame EXCEPT !.op = "insert_entries",
                       !.path = MAIN, !.rest = sorted_entries(entries)]]
    /\ pc' = [pc EXCEPT ![t] = "lock"]
    /\ UNCHANGED <<files, entry, held, call, ext, lock, hooks, loads>>
    /\ UNCHANGED insertVars

\* The return of None by thread t out of the with, which releases the lock.
ReturnNone(t) ==
    /\ frame' = [frame EXCEPT ![t].left = files]
    /\ lock' = Free
    /\ pc' = [pc EXCEPT ![t] = "done"]

\* open(filename) of a file that is not there.
NotFound(filename) ==
    Raise("FileNotFoundError", "", files)

\* save_entry_slice up to its write: the file is not there, or the line of the
\* entry is not, or the sha256sum is not the one of the slice, or the lines to
\* write are made.
SliceReadEnds(t) ==
    /\ pc[t] = "slice_read"
    /\ \/ /\ entry.filename \notin DOMAIN files
          /\ Raised(t, NotFound(entry.filename))
       \/ /\ entry.filename \in DOMAIN files
          /\ \E out \in {Raise("IndexError", "list index out of range", files),
                         Raise(FavaAPIException, CONFLICT_MSG, files)} :
                 Raised(t, out)
       \/ /\ entry.filename \in DOMAIN files
          /\ frame' = [frame EXCEPT ![t].lines = <<REWRITTEN>>]
          /\ pc' = [pc EXCEPT ![t] = "slice_write"]
          /\ UNCHANGED lock
    /\ UNCHANGED <<files, entry, held, call, ext, hooks, loads>>
    /\ UNCHANGED insertVars

\* insert_metadata: ledger.changed(), get_entry, next_key and
\* insert_metadata_in_file, which fails when the file is not there.
InsertMetadataEnds(t) ==
    /\ pc[t] = "next_key"
    /\ IF entry.filename \notin DOMAIN files
       THEN /\ Raised(t, NotFound(entry.filename))
            /\ UNCHANGED files
       ELSE /\ files' = [files EXCEPT ![entry.filename] = REWRITTEN]
            /\ frame' = [frame EXCEPT ![t].key = next_key(frame[t].basekey, entry.keys)]
            /\ pc' = [pc EXCEPT ![t] = "metadata_hook"]
            /\ UNCHANGED lock
    /\ UNCHANGED <<entry, held, call, ext, hooks, loads>>
    /\ UNCHANGED insertVars

\* insert_metadata: run_hook("after_insert_metadata", entry, key, value), and
\* the end of the with.
MetadataHook(t) ==
    /\ pc[t] = "metadata_hook"
    /\ hooks' = Append(hooks, <<t, "after_insert_metadata", frame[t].key, frame[t].text>>)
    /\ ReturnNone(t)
    /\ UNCHANGED <<files, entry, held, call, ext, loads>>
    /\ UNCHANGED insertVars

\* insert_entries: one turn of the loop, insert_entry (which fails when the
\* file is not there) and its hook; after the last turn the with ends.
InsertTurnEnds(t) ==
    /\ pc[t] = "insert_entry"
    /\ IF frame[t].rest = <<>>
       THEN /\ ReturnNone(t)
            /\ UNCHANGED <<files, hooks>>
       ELSE IF frame[t].path \notin DOMAIN files
       THEN /\ Raised(t, NotFound(frame[t].path))
            /\ UNCHANGED <<files, hooks>>
       ELSE /\ files' = [files EXCEPT ![frame[t].path] = REWRITTEN]
            /\ hooks' = Append(hooks, <<t, "after_insert_entry", Head(frame[t].rest)>>)
            /\ frame' = [frame EXCEPT ![t].rest = Tail(@)]
            /\ UNCHANGED <<lock, pc>>
    /\ UNCHANGED <<entry, held, call, ext, loads>>
    /\ UNCHANGED insertVars

\* What another process leaves in the file when it rewrites it.
ExternalContents == {<<>>, <<"c", NL>>}

\* Another process rewrites the main file, at any moment.
ExternalWrite ==
    /\ ext = 0
    /\ MAIN \in DOMAIN files
    /\ \E content \in ExternalContents \ {files[MAIN]} :
         files' = [files EXCEPT ![MAIN] = content]
    /\ ext' = 1
    /\ UNCHANGED <<entry, held, call>>
    /\ UNCHANGED threadVars
    /\ UNCHANGED insertVars

\* Another process removes the main file, at any moment.
ExternalRemove ==
    /\ ext = 0
    /\ MAIN \in DOMAIN files
    /\ files' = [f \in DOMAIN files \ {MAIN} |-> files[f]]
    /\ ext' = 1
    /\ UNCHANGED <<entry, held, call>>
    /\ UNCHANGED threadVars
    /\ UNCHANGED insertVars

\* The steps of thread t inside a call.
Runs(t) ==
    \/ Acquire(t)
    \/ GetSource(t)
    \/ WriteSource(t)
    \/ RunHook(t)
    \/ LoadFile(t)
    \/ ReturnSha(t)
    \/ SliceReadEnds(t)
    \/ SliceWrite(t)
    \/ InsertMetadataEnds(t)
    \/ MetadataHook(t)
    \/ InsertTurnEnds(t)

NextLock ==
    \/ \E t \in Threads :
           \/ CallSetSourceOf(t, LockTexts)
           \/ CallSaveEntrySliceOf(t, LockTexts)
           \/ CallInsertMetadata(t)
           \/ CallInsertEntries(t)
           \/ Runs(t)
    \/ ExternalWrite
    \/ ExternalRemove

\* A thread inside a call goes on: the scheduler is fair to each thread, file
\* I/O and hooks return. Nothing obliges a thread to call, or another process
\* to write.
SpecLock ==
    InitLock /\ [][NextLock]_vars /\ \A t \in Threads : WF_vars(Runs(t))

\* C14: a thread that is not inside a with does not hold the lock, whatever the
\* outcome of its call; and a thread that waits for the lock or holds it gets
\* to the end of its call.
C14_LockReleasedAndProgress ==
    \A t \in Threads :
        /\ [](pc[t] \in {"idle", "lock", "done"} => lock # t)
        /\ (pc[t] \notin {"idle", "done"}) ~> (pc[t] = "done")

\* C14, witness: the call of a thread ended with an error of the file system
\* while the other thread waited for the lock, and the lock is free.
C14_Witness ==
    \E t, u \in Threads :
        /\ pc[t] = "done"
        /\ frame[t].exc \in {"FileNotFoundError", "IndexError"}
        /\ pc[u] = "lock"
        /\ lock = Free

-----------------------------------------------------------------------------
(* More claims about entry slices *)

\* C15: when nobody changes the file between get_entry_slice and
\* save_entry_slice, a save with the sha256sum that get_entry_slice returned
\* does not end with Conflict (nor with any other error), whatever the file,
\* the line of the entry and the new text are.
C15_NoSpuriousConflict ==
    (call.op = "save_entry_slice" /\ call.args[2] = held[2])
        => (call.exc = "none" /\ call.msg # CONFLICT_MSG)

\* C15, witness: a slice of two lines that ends the file without a newline
\* was replaced by another text.
C15_Witness ==
    /\ call.op = "save_entry_slice"
    /\ call.exc = "none"
    /\ count_nl(held[1]) = 1
    /\ Len(readlines(call.pre[MAIN])) = entry.lineno + 1
    /\ call.pre[MAIN][Len(call.pre[MAIN])] # NL
    /\ call.args[1] # held[1]

-----------------------------------------------------------------------------
(* Guarded writes by threads while another process rewrites the file *)

NextClobber ==
    \/ NextConc
    \/ ExternalWrite

SpecClobber == InitConc /\ [][NextClobber]_vars

\* The sha256sum of what thread t is about to overwrite in file system fs: of
\* the file for set_source, of the slice of the entry for save_entry_slice;
\* <<>> when there is no such file or slice.
TargetSha(t, fs) ==
    IF frame[t].op = "set_source"
    THEN IF frame[t].path \in DOMAIN fs THEN sha256_str(fs[frame[t].path]) ELSE <<>>
    ELSE LET now == get_entry_slice(fs, entry)
         IN  IF now.exc = "none" THEN now.ret[2] ELSE <<>>

\* C16 (as claimed): whenever a thread rewrites the file in set_source or
\* save_entry_slice, what it overwrites is at that moment the content that the
\* sha256sum it was given denotes, also when another process writes the file
\* without the lock.
C16_NoClobberingOfExternalEdits ==
    [][\A t \in Threads :
           (\/ pc[t] = "write_source" /\ pc'[t] = "run_hook"
            \/ pc[t] = "slice_write" /\ pc'[t] = "return")
               => TargetSha(t, files) = frame[t].sha256sum]_vars

\* The 0-based index at which the slice that starts at index s of lines ends
\* (exclusive): of the first line after s that ends an entry, or the number
\* of lines.
SliceEnd(lines, s) ==
    LET stops == {i \in (s + 1)..(Len(lines) - 1) : EndsEntry(lines[i + 1])}
    IN  IF stops = {} THEN Len(lines)
        ELSE CHOOSE i \in stops : \A j \in stops : i <= j

\* C17: a save_entry_slice that succeeds leaves in the file, in this order, the
\* lines that stood before the first line of the entry, the new text and one
\* newline, and the lines that stood after the located slice, each as it was
\* when the call began; no other file is touched.
C17_SliceWriteFrame ==
    (call.op = "save_entry_slice" /\ call.exc = "none")
        => LET old == readlines(call.pre[entry.filename])
               s == entry.lineno - 1
               e == SliceEnd(old, s)
           IN  /\ files[entry.filename] =
                      join(SubSeq(old, 1, s)) \o call.args[1] \o <<NL>>
                          \o join(SubSeq(old, e + 1, Len(old)))
               /\ DOMAIN files = DOMAIN call.pre
               /\ \A f \in DOMAIN files \ {entry.filename} : files[f] = call.pre[f]

\* C17, witness: after another process rewrote the file outside the slice, a
\* save replaced the slice by another text, with a line after it.
C17_Witness ==
    /\ call.op = "save_entry_slice"
    /\ call.exc = "none"
    /\ ext = 1
    /\ call.args[1] # held[1]
    /\ SliceEnd(readlines(call.pre[entry.filename]), entry.lineno - 1)
           < Len(readlines(call.pre[entry.filename]))

-----------------------------------------------------------------------------
(* FileModule.insert_entries: a batch of entries inserted by one caller *)

\* The loop of insert_entries over the sorted entries: ret is <<the options
\* that fava_options["insert-entry"] is left with, the entries whose hook was
\* run>>; an exception of insert_entry ends the loop.
RECURSIVE insert_entries_loop(_, _, _, _)
insert_entries_loop(fs, entries, insert_options, done) ==
    IF entries = <<>> THEN Return(<<insert_options, done>>, fs)
    ELSE LET out == insert_entry(fs, Head(entries), MAIN, insert_options)
         IN  IF out.exc # "none" THEN [out EXCEPT !.ret = <<insert_options, done>>]
             ELSE insert_entries_loop(out.fs, Tail(entries), out.ret[1],
                                      Append(done, Head(entries)))

\* FileModule.insert_entries(entries) on file system fs, with the lock held
\* from the first insert to the last.
insert_entries(fs, entries, insert_options) ==
    insert_entries_loop(fs, sorted_entries(entries), insert_options, <<>>)

\* The options of the ledger: two at lines of the main file, one, of a later
\* date, at the line of the included file.
BatchOptions ==
    {[date |-> 1, re |-> {"Assets"}, filename |-> MAIN, lineno |-> 1],
     [date |-> 1, re |-> {"Assets"}, filename |-> MAIN, lineno |-> 2],
     [date |-> 2, re |-> {"Assets"}, filename |-> INC, lineno |-> 1]}

\* The entries of a batch: transactions and balances of two dates, of two
\* lines or of one, and an entry that no option matches.
BatchEntries ==
    {[date |-> d, type |-> ty, accounts |-> <<"Assets">>, raw |-> r] :
        d \in {2, 3}, ty \in {"Transaction", "Balance"},
        r \in {<<"x", " ", NL, " ", "y", NL>>, <<"z">>}}
    \cup {[date |-> 2, type |-> "Document", accounts |-> <<>>, raw |-> <<"w">>]}

\* The batches of at most n entries.
RECURSIVE Batches(_)
Batches(n) ==
    IF n = 0 THEN {<<>>}
    ELSE LET shorter == Batches(n - 1)
         IN  shorter \cup {Append(b, e) : b \in shorter, e \in BatchEntries}

InitBatch ==
    /\ \E content \in MainContents : files = (MAIN :> content) @@ (INC :> IncContent)
    /\ options \in OptionLists(BatchOptions, MaxOptions)
    /\ orig = [i \in DOMAIN options |->
                  LineOf(files, options[i].filename, options[i].lineno)]
    /\ entry = [filename |-> MAIN, lineno |-> 1]
    /\ held = <<>>
    /\ call = NoCall
    /\ ext = 0
    /\ NoThreads

\* FileModule.insert_entries(entries) by one caller: the lock is taken and
\* released, the entries are inserted in sorted order, the options are kept
\* from turn to turn and the hook is run after every insert.
InsertEntries ==
    /\ call.op = ""
    /\ lock = Free
    /\ \E entries \in Batches(MaxBatch) :
         \E out \in {insert_entries(files, entries, options)} :
             /\ call' = Called("insert_entries", <<entries, MAIN, options>>, files, out)
             /\ files' = out.fs
             /\ options' = out.ret[1]
             /\ hooks' = hooks \o [i \in DOMAIN out.ret[2] |->
                                      <<"after_insert_entry", out.ret[2][i]>>]
    /\ UNCHANGED <<entry, held, ext, lock, pc, frame, loads, orig>>

NextBatch ==
    InsertEntries

SpecBatch == InitBatch /\ [][NextBatch]_vars

\* Entry j of batch b comes before entry k in the order of insert_entries: its
\* date is earlier, or the date is the same and its type comes earlier (Open,
\* Balance, any other type, Document, Close), or both are the same and it
\* stands earlier in the batch.
ComesBefore(b, j, k) ==
    LET rank(e) == CASE e.type = "Open" -> 1
                     [] e.type = "Balance" -> 2
                     [] e.type = "Document" -> 4
                     [] e.type = "Close" -> 5
                     [] OTHER -> 3
    IN  \/ b[j].date < b[k].date
        \/ b[j].date = b[k].date /\ rank(b[j]) < rank(b[k])
        \/ b[j].date = b[k].date /\ rank(b[j]) = rank(b[k]) /\ j < k

\* The batch in that order.
InBatchOrder(b) ==
    [p \in DOMAIN b |->
        b[CHOOSE k \in DOMAIN b :
              Cardinality({j \in DOMAIN b : ComesBefore(b, j, k)}) = p - 1]]

\* The texts of the entries of b, each with the newline that ends it, one
\* after the other.
RECURSIVE BlockOf(_)
BlockOf(b) ==
    IF b = <<>> THEN <<>>
    ELSE format_entry_text(Head(b)) \o <<NL>> \o BlockOf(Tail(b))

\* The last call inserted a batch of which every entry is routed to the place
\* of option i.
AllRoutedTo(i) ==
    /\ call.op = "insert_entries"
    /\ i \in DOMAIN CallOptions
    /\ \A k \in DOMAIN CallEntry :
         find_insert_position(CallEntry[k], CallOptions, MAIN)
             = <<CallOptions[i].filename, CallOptions[i].lineno - 1>>

\* C18: when every entry of a batch is routed to the same option, the file of
\* the option holds, in this order, the lines that stood above the line of the
\* option, the entries of the batch by date and then type (entries that agree
\* in both in the order of the batch), and the line of the option with the
\* lines below it; the other file is as it was, and the option designates the
\* line it designated.
C18_BatchOrderInFile ==
    \A i \in DOMAIN options :
        AllRoutedTo(i) =>
            LET f == CallOptions[i].filename
                old == readlines(call.pre[f])
                p == CallOptions[i].lineno - 1
            IN  /\ call.exc = "none"
                /\ files[f] = join(SubSeq(old, 1, p))
                                  \o BlockOf(InBatchOrder(CallEntry))
                                  \o join(SubSeq(old, p + 1, Len(old)))
                /\ \A g \in DOMAIN files \ {f} : files[g] = call.pre[g]
                /\ LineOf(files, options[i].filename, options[i].lineno) = orig[i]

\* C18, witness: a batch of two entries of two lines each, given with the
\* later date first, went to an option of line 2 of the main file.
C18_Witness ==
    \E i \in DOMAIN options :
        /\ AllRoutedTo(i)
        /\ Len(CallEntry) = 2
        /\ CallEntry[1].date > CallEntry[2].date
        /\ \A k \in 1..2 : count_nl(CallEntry[k].raw) = 2
        /\ CallOptions[i].filename = MAIN
        /\ CallOptions[i].lineno = 2

-----------------------------------------------------------------------------
(* The slice read again after it was saved *)

\* The caller reads the slice of the entry again after a save that succeeded;
\* the call keeps the sha256sum that the save returned.
GetSavedSlice ==
    /\ call.op = "save_entry_slice"
    /\ call.exc = "none"
    /\ LET out == get_entry_slice(files, entry)
       IN  /\ call' = Called("get_saved_slice", call.ret, files, out)
           /\ files' = out.fs
    /\ UNCHANGED <<entry, held, ext>>
    /\ UNCHANGED threadVars
    /\ UNCHANGED insertVars

\* One read, one save with what was read, and the read after it.
NextChain ==
    \/ GetEntrySlice
    \/ call.op = "get_entry_slice" /\ SaveEntrySlice(Texts(MaxTextLines))
    \/ GetSavedSlice

SpecChain == InitSlice /\ [][NextChain]_vars

\* C19 (as claimed): the sha256sum that a successful save_entry_slice returned
\* is the one that get_entry_slice returns for the entry right after it.
C19_ReturnedShaIsShaOfNewSlice ==
    call.op = "get_saved_slice"
        => (call.exc = "none" /\ call.ret[2] = call.args[1])

-----------------------------------------------------------------------------
(* More claims about inserting entries *)

\* C20 (as claimed): after insert_entry appended an entry to a default file
\* that was not empty, the line that stands directly before the first line of
\* the entry is blank, whether the file ended with a newline or not.
C20_BlankLineBeforeAppended ==
    (/\ call.op = "insert_entry"
     /\ call.exc = "none"
     /\ Len(CallPosition) = 1
     /\ call.pre[MAIN] # <<>>)
        => LET old == call.pre[MAIN]
               above == readlines(SubSeq(files[MAIN], 1, Len(old) + 1))
           IN  /\ SubSeq(files[MAIN], Len(old) + 2, Len(files[MAIN])) = CallContent
               /\ \A i \in 1..Len(above[Len(above)]) :
                      above[Len(above)][i] \in {" ", NL}

=============================================================================
